---- MODULE Spec2Model ----
(***************************************************************************)
(* Model of package raster (tinkerator/raster): the Rasterizer path        *)
(* recorder (extend / MoveTo / LineTo / CubeTo / ClosePath / Reset) and    *)
(* the replay compositor (Render).                                         *)
(*                                                                         *)
(* float64 coordinates are modelled in fixed point: the integer n stands   *)
(* for the dyadic rational n / Scale, Scale == 2^FracBits.  Sums and       *)
(* differences of such values are exact in float64, so float64 + and - are *)
(* integer + and -.  Go's int(f) truncates towards zero (Trunc), and       *)
(* float32(f) rounds to a 24 bit significand (F32).                        *)
(***************************************************************************)
EXTENDS Integers, Sequences, FiniteSets

\* ---------------------------------------------------------------- bounds
\* number of fractional binary digits of a modelled coordinate
FracBits == 1
\* most segments recorded (buffered) or calls forwarded (immediate)
MaxCmds == 3

Scale == 2 ^ FracBits

\* ------------------------------------------------------------- operators
bogus == 0
moveto == 1
lineto == 2
cubeto == 3

\* ---------------------------------------------------------------- inputs
\* coordinate pairs handed to move_to and to line_to (numerators over Scale)
MovePts == {<<-3, 2>>, <<2, -4>>}
LinePts == {<<0, 0>>, <<5, 1>>}
\* control points and end points handed to cube_to
CtlPts == {<<-4, 3>>, <<6, -1>>}
Ctl2Pts == {<<1, 5>>}
EndPts == {<<1, -2>>}
\* render offsets (x, y), numerators over Scale
Offs == {<<0, 0>>, <<3, -5>>}
\* pixel dimensions given to NewRasterizer, and to Reset
Dims == {<<4, 4>>}
ResetDims == {<<8, 6>>}

\* the nil *vector.Rasterizer
Nil == [nil |-> TRUE, w |-> 0, h |-> 0]

\* vector.NewRasterizer(w, h), and the converter after Reset(w, h)
NewVector(w, h) == [nil |-> FALSE, w |-> w, h |-> h]

VARIABLES
    R,         \* Rasterizer.R: Nil, or the wrapped converter's size [w, h]
    Entries,   \* Rasterizer.Entries
    fwd,       \* calls made on the wrapped converter r.R, in order
    vrs,       \* scan-converters the latest call created, in order (Render only)
    im,        \* composites the latest call drew into im, in order (Render only)
    last,      \* the latest call made on the recorder: [op, args]
    panicked   \* a call panicked (the goroutine is unwinding)

vars == <<R, Entries, fwd, vrs, im, last, panicked>>

\* -------------------------------------------------------- numeric helpers
Abs(n) == IF n < 0 THEN -n ELSE n

\* Go int(f) for the float64 n / Scale: truncation towards zero
Trunc(n) == IF n >= 0 THEN n \div Scale ELSE -((-n) \div Scale)

\* the spacing of float32 values around a >= 2^24: the least q = 2^k with
\* a < q * 2^24
RECURSIVE Quantum(_, _)
Quantum(a, q) == IF a < q * 2 ^ 24 THEN q ELSE Quantum(a, 2 * q)

\* a >= 0 rounded to a multiple of q, ties to the even multiple
RoundEven(a, q) ==
    IF 2 * (a % q) > q \/ (2 * (a % q) = q /\ (a \div q) % 2 = 1)
    THEN (a \div q + 1) * q
    ELSE (a \div q) * q

\* Go float32(f) for the float64 n / Scale: the numerator is rounded to 24
\* significant bits, ties to even (Scale is a power of two)
F32(n) ==
    IF Abs(n) < 2 ^ 24 THEN n
    ELSE IF n < 0 THEN -RoundEven(-n, Quantum(-n, 2))
    ELSE RoundEven(n, Quantum(n, 2))

F32Seq(args) == [i \in 1 .. Len(args) |-> F32(args[i])]

\* ------------------------------------------------------------- the recorder
\* NewEntry changed: the box is left at its zero value
NewEntryZeroBox(args) ==
    [Closed |-> FALSE, Path |-> <<>>, MinX |-> 0, MinY |-> 0, MaxX |-> 0, MaxY |-> 0]

\* Entry{MinX: args[0], MinY: args[1], MaxX: args[0], MaxY: args[1]}
NewEntry(args) ==
    [Closed |-> FALSE, Path |-> <<>>,
     MinX |-> args[1], MinY |-> args[2], MaxX |-> args[1], MaxY |-> args[2]]

\* one x comparison of extend's loop
MergeX(e, a) ==
    IF a < e.MinX THEN [e EXCEPT !.MinX = a]
    ELSE IF a > e.MaxX THEN [e EXCEPT !.MaxX = a]
    ELSE e

\* one y comparison of extend's loop
MergeY(e, a) ==
    IF a < e.MinY THEN [e EXCEPT !.MinY = a]
    ELSE IF a > e.MaxY THEN [e EXCEPT !.MaxY = a]
    ELSE e

\* MergeArgs changed: only the last coordinate pair of a segment (a curve's end
\* point) is merged, its control points are not
MergeArgsEndOnly(e, args, i) ==
    IF i >= Len(args) THEN e
    ELSE MergeY(MergeX(e, args[Len(args) - 1]), args[Len(args)])

\* for ; i < len(args); i += 2 { ... }   (i is the 0-based index)
RECURSIVE MergeArgs(_, _, _)
MergeArgs(e, args, i) ==
    IF i >= Len(args) THEN e
    ELSE MergeArgs(MergeY(MergeX(e, args[i + 1]), args[i + 2]), args, i + 2)

\* extend changed: the "if r.R != nil { return }" guard is missing
extendNoGuard(r, es, op, args) ==
    LET fresh == Len(es) = 0 \/ es[Len(es)].Closed
        es1 == IF fresh THEN Append(es, NewEntry(args)) ELSE es
        n == Len(es1)
        e == MergeArgs(es1[n], args, IF fresh THEN 2 ELSE 0)
    IN  [es1 EXCEPT ![n] =
            [e EXCEPT !.Path = Append(@, [Op |-> op, Args |-> args])]]

\* extend changed: a line_to always starts a new entry, open entry or not
extendMoveStarts(r, es, op, args) ==
    IF r # Nil THEN es
    ELSE LET fresh == Len(es) = 0 \/ es[Len(es)].Closed \/ op = lineto
             es1 == IF fresh THEN Append(es, NewEntry(args)) ELSE es
             n == Len(es1)
             e == MergeArgs(es1[n], args, IF fresh THEN 2 ELSE 0)
         IN  [es1 EXCEPT ![n] =
                 [e EXCEPT !.Path = Append(@, [Op |-> op, Args |-> args])]]

\* extend changed: a closed last entry is appended to (only an empty list
\* starts an entry)
extendIgnoreClosed(r, es, op, args) ==
    IF r # Nil THEN es
    ELSE LET fresh == Len(es) = 0
             es1 == IF fresh THEN Append(es, NewEntry(args)) ELSE es
             n == Len(es1)
             e == MergeArgs(es1[n], args, IF fresh THEN 2 ELSE 0)
         IN  [es1 EXCEPT ![n] =
                 [e EXCEPT !.Path = Append(@, [Op |-> op, Args |-> args])]]

\* extend changed: only the last coordinate pair is stored in the segment
extendEndPointOnly(r, es, op, args) ==
    IF r # Nil THEN es
    ELSE LET fresh == Len(es) = 0 \/ es[Len(es)].Closed
             es1 == IF fresh THEN Append(es, NewEntry(args)) ELSE es
             n == Len(es1)
             e == MergeArgs(es1[n], args, IF fresh THEN 2 ELSE 0)
         IN  [es1 EXCEPT ![n] =
                 [e EXCEPT !.Path =
                     Append(@, [Op |-> op, Args |-> SubSeq(args, Len(args) - 1, Len(args))])]]

\* r.extend(op, args...): the entries afterwards
extend(r, es, op, args) ==
    IF r # Nil THEN es
    ELSE LET fresh == Len(es) = 0 \/ es[Len(es)].Closed
             es1 == IF fresh THEN Append(es, NewEntry(args)) ELSE es
             i == IF fresh THEN 2 ELSE 0
             n == Len(es1)
             e == MergeArgs(es1[n], args, i)
         IN  [es1 EXCEPT ![n] =
                 [e EXCEPT !.Path = Append(@, [Op |-> op, Args |-> args])]]

\* if r.R != nil { r.R.<name>(float32(...)) }: the calls r.R has received
Forward(r, f, name, args) ==
    IF r # Nil THEN Append(f, [op |-> name, args |-> F32Seq(args)]) ELSE f

\* segments held by all entries
RECURSIVE TotalSegs(_)
TotalSegs(es) ==
    IF es = <<>> THEN 0 ELSE Len(es[Len(es)].Path) + TotalSegs(SubSeq(es, 1, Len(es) - 1))

\* room for one more command within the bound
Room == ~panicked /\ TotalSegs(Entries) < MaxCmds /\ Len(fwd) < MaxCmds

Init ==
    /\ R \in {Nil} \cup {NewVector(d[1], d[2]) : d \in Dims}
    /\ Entries = <<>>
    /\ fwd = <<>>
    /\ vrs = <<>>
    /\ im = <<>>
    /\ last = [op |-> "New", args |-> <<>>]
    /\ panicked = FALSE

MoveTo(x, y) ==
    /\ Room
    /\ Entries' = extend(R, Entries, moveto, <<x, y>>)
    /\ fwd' = Forward(R, fwd, "MoveTo", <<x, y>>)
    /\ last' = [op |-> "MoveTo", args |-> <<x, y>>]
    /\ vrs' = <<>> /\ im' = <<>>
    /\ UNCHANGED <<R, panicked>>

LineTo(x, y) ==
    /\ Room
    /\ Entries' = extend(R, Entries, lineto, <<x, y>>)
    /\ fwd' = Forward(R, fwd, "LineTo", <<x, y>>)
    /\ last' = [op |-> "LineTo", args |-> <<x, y>>]
    /\ vrs' = <<>> /\ im' = <<>>
    /\ UNCHANGED <<R, panicked>>

CubeTo(a, b, c, d, e, f) ==
    /\ Room
    /\ Entries' = extend(R, Entries, cubeto, <<a, b, c, d, e, f>>)
    /\ fwd' = Forward(R, fwd, "CubeTo", <<a, b, c, d, e, f>>)
    /\ last' = [op |-> "CubeTo", args |-> <<a, b, c, d, e, f>>]
    /\ vrs' = <<>> /\ im' = <<>>
    /\ UNCHANGED <<R, panicked>>

\* r.Entries[len(r.Entries)-1].Closed = true
CloseLast(es) == [es EXCEPT ![Len(es)].Closed = TRUE]

ClosePath ==
    /\ ~panicked
    /\ Len(fwd) < MaxCmds
    /\ last' = [op |-> "ClosePath", args |-> <<>>]
    /\ IF R # Nil
       THEN /\ fwd' = Forward(R, fwd, "ClosePath", <<>>)
            /\ UNCHANGED <<Entries, panicked>>
       ELSE IF Len(Entries) = 0
       THEN \* index out of range [-1]
            /\ panicked' = TRUE
            /\ UNCHANGED <<Entries, fwd>>
       ELSE /\ Entries' = CloseLast(Entries)
            /\ UNCHANGED <<fwd, panicked>>
    /\ vrs' = <<>> /\ im' = <<>>
    /\ UNCHANGED R

\* r.R.Reset(w, h): the entries afterwards
ResetEntries(es) == es

Reset(w, h) ==
    /\ ~panicked
    /\ Len(fwd) < MaxCmds
    /\ last' = [op |-> "Reset", args |-> <<w, h>>]
    /\ Entries' = ResetEntries(Entries)
    /\ IF R # Nil
       THEN /\ R' = NewVector(w, h)
            /\ fwd' = Append(fwd, [op |-> "Reset", args |-> <<w, h>>])
            /\ UNCHANGED panicked
       ELSE \* nil pointer dereference inside (*vector.Rasterizer).Reset
            /\ panicked' = TRUE
            /\ UNCHANGED <<R, fwd>>
    /\ vrs' = <<>> /\ im' = <<>>

\* ---------------------------------------------------------------- replay
\* toX := func(x float64) float32 { return float32(1 + x - e.MinX) }
toX(e, x) == F32(Scale + x - e.MinX)

\* toY := func(y float64) float32 { return float32(1 + y - e.MinY) }
toY(e, y) == F32(Scale + y - e.MinY)

\* Wide changed: one pixel of margin instead of two
WideOneMargin(e) == Trunc(Scale + e.MaxX - e.MinX)

\* wide := int(2 + e.MaxX - e.MinX)
Wide(e) == Trunc(2 * Scale + e.MaxX - e.MinX)

\* high := int(2 + e.MaxY - e.MinY)
High(e) == Trunc(2 * Scale + e.MaxY - e.MinY)

\* image.Rect(x0, y0, x1, y1): a canonical rectangle
Rect(x0, y0, x1, y1) ==
    [x0 |-> IF x0 > x1 THEN x1 ELSE x0, y0 |-> IF y0 > y1 THEN y1 ELSE y0,
     x1 |-> IF x0 > x1 THEN x0 ELSE x1, y1 |-> IF y0 > y1 THEN y0 ELSE y1]

\* the loop body with a switch whose default case does nothing
ReplaySegSkipUnknown(e, p) ==
    IF (p.Op = cubeto /\ Len(p.Args) # 6) \/ (p.Op # cubeto /\ Len(p.Args) # 2)
    THEN [err |-> TRUE, cmd |-> <<>>]
    ELSE IF p.Op = moveto
    THEN [err |-> FALSE, cmd |-> <<[op |-> "MoveTo", args |-> <<toX(e, p.Args[1]), toY(e, p.Args[2])>>]>>]
    ELSE IF p.Op = lineto
    THEN [err |-> FALSE, cmd |-> <<[op |-> "LineTo", args |-> <<toX(e, p.Args[1]), toY(e, p.Args[2])>>]>>]
    ELSE IF p.Op = cubeto
    THEN [err |-> FALSE,
          cmd |-> <<[op |-> "CubeTo",
                     args |-> <<toX(e, p.Args[1]), toY(e, p.Args[2]), toX(e, p.Args[3]),
                                toY(e, p.Args[4]), toX(e, p.Args[5]), toY(e, p.Args[6])>>]>>]
    ELSE [err |-> FALSE, cmd |-> <<>>]

\* the body of "for _, p := range e.Path": the call made on vr, or a panic
ReplaySeg(e, p) ==
    LET a == p.Args
    IN  IF (p.Op = cubeto /\ Len(a) # 6) \/ (p.Op # cubeto /\ Len(a) # 2)
        THEN [err |-> TRUE, cmd |-> <<>>]
        ELSE IF p.Op = moveto
        THEN [err |-> FALSE, cmd |-> <<[op |-> "MoveTo", args |-> <<toX(e, a[1]), toY(e, a[2])>>]>>]
        ELSE IF p.Op = lineto
        THEN [err |-> FALSE, cmd |-> <<[op |-> "LineTo", args |-> <<toX(e, a[1]), toY(e, a[2])>>]>>]
        ELSE IF p.Op = cubeto
        THEN [err |-> FALSE,
              cmd |-> <<[op |-> "CubeTo",
                         args |-> <<toX(e, a[1]), toY(e, a[2]), toX(e, a[3]),
                                    toY(e, a[4]), toX(e, a[5]), toY(e, a[6])>>]>>]
        ELSE [err |-> TRUE, cmd |-> <<>>]

\* for _, p := range e.Path { ... } from segment k on: the calls vr received
RECURSIVE ReplayPath(_, _, _)
ReplayPath(e, k, path) ==
    IF k > Len(e.Path) THEN [err |-> FALSE, path |-> path]
    ELSE LET s == ReplaySeg(e, e.Path[k])
         IN  IF s.err THEN [err |-> TRUE, path |-> path]
             ELSE ReplayPath(e, k + 1, path \o s.cmd)

\* RenderEntry changed: the "if !e.Closed { continue }" test is missing
RenderEntryNoSkip(e, i, x, y) ==
    LET rp == ReplayPath(e, 1, <<>>)
        path == Append(rp.path, [op |-> "ClosePath", args |-> <<>>])
        ix == Trunc(x + e.MinX - Scale)
        iy == Trunc(y + e.MinY - Scale)
    IN  [err |-> rp.err,
         vr |-> [src |-> i, wide |-> Wide(e), high |-> High(e), path |-> path],
         draw |-> <<[src |-> i, ix |-> ix, iy |-> iy,
                     rect |-> Rect(ix, iy, ix + Wide(e), iy + High(e)),
                     wide |-> Wide(e), high |-> High(e), path |-> path]>>]

\* one iteration of Render's loop, for entry number i
RenderEntry(e, i, x, y) ==
    LET wide == Wide(e)
        high == High(e)
        vr == [src |-> i, wide |-> wide, high |-> high, path |-> <<>>]
    IN  IF ~e.Closed THEN [err |-> FALSE, vr |-> vr, draw |-> <<>>]
        ELSE LET rp == ReplayPath(e, 1, <<>>)
             IN  IF rp.err THEN [err |-> TRUE, vr |-> [vr EXCEPT !.path = rp.path], draw |-> <<>>]
                 ELSE LET path == Append(rp.path, [op |-> "ClosePath", args |-> <<>>])
                          ix == Trunc(x + e.MinX - Scale)
                          iy == Trunc(y + e.MinY - Scale)
                      IN  [err |-> FALSE,
                           vr |-> [vr EXCEPT !.path = path],
                           draw |-> <<[src |-> i, ix |-> ix, iy |-> iy,
                                       rect |-> Rect(ix, iy, ix + wide, iy + high),
                                       wide |-> wide, high |-> high, path |-> path]>>]

\* RenderFrom changed: the entries are walked from the last to the first
RECURSIVE RenderBackFrom(_, _, _, _, _)
RenderBackFrom(es, i, x, y, acc) ==
    IF i > Len(es) THEN acc
    ELSE LET j == Len(es) + 1 - i
             o == RenderEntry(es[j], j, x, y)
             nxt == [vrs |-> Append(acc.vrs, o.vr), im |-> acc.im \o o.draw, err |-> o.err]
         IN  IF o.err THEN nxt ELSE RenderBackFrom(es, i + 1, x, y, nxt)

\* for _, e := range r.Entries { ... } from entry i on
RECURSIVE RenderFrom(_, _, _, _, _)
RenderFrom(es, i, x, y, acc) ==
    IF i > Len(es) THEN acc
    ELSE LET o == RenderEntry(es[i], i, x, y)
             nxt == [vrs |-> Append(acc.vrs, o.vr), im |-> acc.im \o o.draw, err |-> o.err]
         IN  IF o.err THEN nxt ELSE RenderFrom(es, i + 1, x, y, nxt)

\* RenderEntries changed: replayed (closed) entries are consumed
RenderEntriesConsumed(es) == SelectSeq(es, LAMBDA e : ~e.Closed)

\* r.Entries after Render: the loop ranges over copies and writes none back
RenderEntries(es) == es

\* r.Render(im, x, y, col) onto a fresh canvas
Render(x, y) ==
    /\ ~panicked
    /\ LET res == RenderFrom(Entries, 1, x, y, [vrs |-> <<>>, im |-> <<>>, err |-> FALSE])
       IN  /\ vrs' = res.vrs
           /\ im' = res.im
           /\ panicked' = res.err
    /\ Entries' = RenderEntries(Entries)
    /\ last' = [op |-> "Render", args |-> <<x, y>>]
    /\ UNCHANGED <<R, fwd>>

Next ==
    \/ \E p \in MovePts : MoveTo(p[1], p[2])
    \/ \E p \in LinePts : LineTo(p[1], p[2])
    \/ \E c1 \in CtlPts, c2 \in Ctl2Pts, p \in EndPts :
           CubeTo(c1[1], c1[2], c2[1], c2[2], p[1], p[2])
    \/ ClosePath
    \/ \E d \in ResetDims : Reset(d[1], d[2])
    \/ \E o \in Offs : Render(o[1], o[2])

Spec == Init /\ [][Next]_vars

\* ================================================================ claims
Range(f) == {f[i] : i \in DOMAIN f}
MinOf(S) == CHOOSE m \in S : \A v \in S : m <= v
MaxOf(S) == CHOOSE m \in S : \A v \in S : m >= v

\* the x (y) coordinates of every coordinate pair of every segment of e
XsOf(e) == UNION {{p.Args[2 * j - 1] : j \in 1 .. (Len(p.Args) \div 2)} : p \in Range(e.Path)}
YsOf(e) == UNION {{p.Args[2 * j] : j \in 1 .. (Len(p.Args) \div 2)} : p \in Range(e.Path)}

Buffered == R = Nil
HasOpen(es) == Len(es) > 0 /\ ~es[Len(es)].Closed

\* C1: in buffered mode, in every state (so after every move_to, line_to and
\* cube_to, and when an entry is closed), each entry's bounding box is the
\* exact per-axis minimum and maximum over all coordinate pairs, control
\* points included, of the segments recorded into it.
C1_BoundingBoxExact ==
    Buffered =>
        \A i \in DOMAIN Entries :
            LET e == Entries[i]
            IN  /\ e.Path # <<>>
                /\ e.MinX = MinOf(XsOf(e)) /\ e.MaxX = MaxOf(XsOf(e))
                /\ e.MinY = MinOf(YsOf(e)) /\ e.MaxY = MaxOf(YsOf(e))

\* C1 witness: a closed entry of several segments whose box is set by a curve's
\* control point and not by any end point
C1_Witness ==
    /\ Buffered
    /\ \E i \in DOMAIN Entries :
           LET e == Entries[i]
           IN  /\ e.Closed /\ Len(e.Path) >= 3
               /\ \E k \in DOMAIN e.Path :
                      /\ e.Path[k].Op = cubeto
                      /\ e.Path[k].Args[1] = e.MinX
                      /\ \A m \in DOMAIN e.Path :
                             e.Path[m].Args[Len(e.Path[m].Args) - 1] > e.MinX

\* C2 (as claimed): once reset has been called, the recorder holds no entries.
C2_ResetDiscardsEntries == last.op = "Reset" => Entries = <<>>

\* C3 (as claimed): in buffered mode a close_path issued while no entry is open
\* (empty list, or last entry already closed) panics and leaves the entries
\* unchanged.
C3_CloseWithoutOpenEntryIsFatal ==
    [][(ClosePath /\ Buffered /\ ~HasOpen(Entries)) => (panicked' /\ Entries' = Entries)]_vars

\* C4: a recorder with a converter never records an entry, keeps its converter,
\* and forwards each command to it exactly once, in call order, with float32
\* arguments; a recorder without a converter never gets one and forwards nothing.
C4_ImmediateModeForLife ==
    /\ [](~Buffered => Entries = <<>>)
    /\ [](Buffered => fwd = <<>>)
    /\ [][Buffered <=> Buffered']_vars
    /\ [][(~Buffered /\ last'.op \in {"MoveTo", "LineTo", "CubeTo", "ClosePath"})
              => fwd' = Append(fwd, [op |-> last'.op, args |-> F32Seq(last'.args)])]_vars
    /\ [][(~Buffered /\ last'.op = "Reset")
              => /\ fwd' = Append(fwd, [op |-> "Reset", args |-> last'.args])
                 /\ R' = NewVector(last'.args[1], last'.args[2])]_vars
    /\ [][(~Buffered /\ last'.op = "Render") => fwd' = fwd]_vars

\* C4 witness: an immediate recorder after a curve, a close and a reset
C4_Witness ==
    /\ ~Buffered
    /\ Len(fwd) >= 3
    /\ \E i, j, k \in DOMAIN fwd :
           i < j /\ j < k /\ fwd[i].op = "CubeTo" /\ fwd[j].op = "ClosePath"
           /\ fwd[k].op = "Reset"

\* C5: after Render, an entry that is not closed has received no scan-converter
\* path command and no composite, and a panic, if any, did not come from it.
C5_UnclosedNeverReplayed ==
    last.op = "Render" =>
        \A i \in DOMAIN Entries :
            ~Entries[i].Closed =>
                /\ \A d \in Range(im) : d.src # i
                /\ \A v \in Range(vrs) : v.src = i => v.path = <<>>
                /\ panicked => vrs[Len(vrs)].src # i

\* C5 witness: a replay of a recorder holding a closed entry and an unclosed
\* entry of two segments
C5_Witness ==
    /\ last.op = "Render"
    /\ Len(im) >= 1
    /\ HasOpen(Entries)
    /\ Len(Entries[Len(Entries)].Path) >= 2
    /\ Len(vrs) = Len(Entries)

\* the converter call a segment operator is replayed as
OpName(op) ==
    IF op = moveto THEN "MoveTo" ELSE IF op = lineto THEN "LineTo"
    ELSE IF op = cubeto THEN "CubeTo" ELSE "invalid"

\* the operator a recorder command records
OpCode(name) ==
    IF name = "MoveTo" THEN moveto ELSE IF name = "LineTo" THEN lineto
    ELSE IF name = "CubeTo" THEN cubeto ELSE bogus

\* C6: Render composites exactly the closed entries, in increasing entry
\* position (so a later entry is drawn after, and over, an earlier one), and
\* replays each entry's segments in recorded order (same operators, same
\* displacements from the first point); a new entry is always stored after all
\* existing ones, which keep their positions.
C6_ReplayOrderPreserving ==
    /\ [](last.op = "Render" /\ ~panicked =>
            /\ \A a, b \in DOMAIN im : a < b => im[a].src < im[b].src
            /\ {d.src : d \in Range(im)} = {i \in DOMAIN Entries : Entries[i].Closed}
            /\ \A d \in Range(im) :
                   LET P == Entries[d.src].Path
                   IN  /\ Len(d.path) = Len(P) + 1
                       /\ d.path[Len(d.path)].op = "ClosePath"
                       /\ \A k \in DOMAIN P :
                              /\ d.path[k].op = OpName(P[k].Op)
                              /\ Len(d.path[k].args) = Len(P[k].Args)
                              /\ \A j \in DOMAIN P[k].Args :
                                     d.path[k].args[j] - d.path[1].args[2 - (j % 2)]
                                         = P[k].Args[j] - P[1].Args[2 - (j % 2)])
    /\ [][Len(Entries') > Len(Entries) =>
            /\ Len(Entries') = Len(Entries) + 1
            /\ SubSeq(Entries', 1, Len(Entries)) = Entries
            /\ Entries'[Len(Entries')].Path = <<[Op |-> OpCode(last'.op), Args |-> last'.args]>>]_vars

\* C6 witness: a replay of two closed entries, the first of two segments
C6_Witness ==
    /\ last.op = "Render"
    /\ Len(im) = 2
    /\ Len(Entries[1].Path) = 2
    /\ Entries[1].Path[2].Op = cubeto
    /\ im[2].src = 2

\* C7 (as claimed): in buffered mode every entry's first segment is a MoveTo.
C7_EveryEntryStartsWithMoveTo ==
    Buffered => \A i \in DOMAIN Entries : Entries[i].Path[1].Op = moveto

\* C7 (amended): in buffered mode a line_to or cube_to issued while an entry
\* is open appends its segment to that entry and starts no entry; issued while
\* no entry is open it starts a new entry whose only segment is that LineTo or
\* CubeTo.  An entry opened by a move_to starts with a MoveTo.
C7_LineCubeAppendOrStart ==
    [][(Buffered /\ last'.op \in {"MoveTo", "LineTo", "CubeTo"} /\ Entries' # Entries) =>
          LET seg == [Op |-> OpCode(last'.op), Args |-> last'.args]
              n == Len(Entries)
          IN  IF HasOpen(Entries)
              THEN /\ Len(Entries') = n
                   /\ Entries'[n].Path = Append(Entries[n].Path, seg)
              ELSE /\ Len(Entries') = n + 1
                   /\ Entries'[n + 1].Path = <<seg>>]_vars

\* C7 witness: an entry opened by a line_to that a cube_to was appended to,
\* after an entry opened by a move_to
C7_Witness ==
    /\ Buffered
    /\ Len(Entries) = 2
    /\ Entries[1].Path[1].Op = moveto
    /\ Len(Entries[2].Path) = 2
    /\ Entries[2].Path[1].Op = lineto
    /\ Entries[2].Path[2].Op = cubeto

\* the x (y) coordinates a composite's converter received
LocalXs(d) == UNION {{c.args[2 * j - 1] : j \in 1 .. (Len(c.args) \div 2)} : c \in Range(d.path)}
LocalYs(d) == UNION {{c.args[2 * j] : j \in 1 .. (Len(c.args) \div 2)} : c \in Range(d.path)}

\* C8 (as claimed): the buffer is int(2 + MaxX - MinX) by int(2 + MaxY - MinY)
\* and every local coordinate lies in [1, width - 1] x [1, height - 1].
C8_OnePixelMargin ==
    last.op = "Render" =>
        \A d \in Range(im) :
            LET e == Entries[d.src]
            IN  /\ d.wide = Trunc(2 * Scale + e.MaxX - e.MinX)
                /\ d.high = Trunc(2 * Scale + e.MaxY - e.MinY)
                /\ \A lx \in LocalXs(d) : Scale <= lx /\ lx <= (d.wide - 1) * Scale
                /\ \A ly \in LocalYs(d) : Scale <= ly /\ ly <= (d.high - 1) * Scale

\* C8 (amended): the buffer is int(2 + MaxX - MinX) by int(2 + MaxY - MinY) and
\* every local coordinate lies in [1, width) x [1, height), so the buffer is
\* never too small; the far margin is a full pixel (local <= size - 1) on an
\* axis whose extent Max - Min is a whole number.
C8_BufferHoldsEveryPoint ==
    last.op = "Render" =>
        \A d \in Range(im) :
            LET e == Entries[d.src]
            IN  /\ d.wide = Trunc(2 * Scale + e.MaxX - e.MinX)
                /\ d.high = Trunc(2 * Scale + e.MaxY - e.MinY)
                /\ \A lx \in LocalXs(d) :
                       /\ Scale <= lx /\ lx < d.wide * Scale
                       /\ (e.MaxX - e.MinX) % Scale = 0 => lx <= (d.wide - 1) * Scale
                /\ \A ly \in LocalYs(d) :
                       /\ Scale <= ly /\ ly < d.high * Scale
                       /\ (e.MaxY - e.MinY) % Scale = 0 => ly <= (d.high - 1) * Scale

\* C8 witness: a replayed entry of three segments whose x extent is not a whole
\* number of pixels and whose y extent is
C8_Witness ==
    /\ last.op = "Render"
    /\ \E d \in Range(im) :
           LET e == Entries[d.src]
           IN  /\ Len(e.Path) >= 3
               /\ (e.MaxX - e.MinX) % Scale # 0
               /\ (e.MaxY - e.MinY) % Scale = 0
               /\ e.MaxY > e.MinY

\* C9 (as claimed): for every recorded coordinate (px, py) of a replayed entry,
\* local coordinate + integer compositing offset = (x + px, y + py), and the
\* rectangle drawn into is [ix, ix + width) x [iy, iy + height).
C9_AbsolutePosition ==
    last.op = "Render" =>
        \A d \in Range(im) :
            LET P == Entries[d.src].Path
                x == last.args[1]
                y == last.args[2]
            IN  /\ d.rect = [x0 |-> d.ix, y0 |-> d.iy, x1 |-> d.ix + d.wide, y1 |-> d.iy + d.high]
                /\ \A k \in DOMAIN P :
                       \A j \in 1 .. (Len(P[k].Args) \div 2) :
                           /\ d.path[k].args[2 * j - 1] + d.ix * Scale = x + P[k].Args[2 * j - 1]
                           /\ d.path[k].args[2 * j] + d.iy * Scale = y + P[k].Args[2 * j]

\* C10: a Render step changes neither the entries (number, order, segments,
\* arguments, boxes, closed flags) nor the mode, whatever the recorder holds and
\* however often it is repeated.
C10_RenderReadOnly ==
    [][last'.op = "Render" => (Entries' = Entries /\ R' = R /\ fwd' = fwd)]_vars

\* C10 witness: a replay, at a non-zero offset, of a recorder holding a closed
\* and an open entry
C10_Witness ==
    /\ last.op = "Render"
    /\ last.args # <<0, 0>>
    /\ Len(Entries) = 2
    /\ Entries[1].Closed /\ ~Entries[2].Closed
    /\ Len(im) = 1 /\ Len(vrs) = 2

Lesser(a, b) == IF a < b THEN a ELSE b
Greater(a, b) == IF a > b THEN a ELSE b

\* C11: in buffered mode a recording command starts a new entry exactly when no
\* entry is open (empty list, or last entry closed), and the new entry's box
\* starts at the command's first point; a move_to issued while an entry is open
\* leaves the entry count unchanged, is appended to the open entry as a MoveTo
\* segment and is merged into its box.
C11_NewEntryOnlyWhenNoneOpen ==
    [][(Buffered /\ last'.op \in {"MoveTo", "LineTo", "CubeTo"} /\ Entries' # Entries) =>
          LET n == Len(Entries)
              a == last'.args
          IN  /\ (Len(Entries') = n + 1) <=> ~HasOpen(Entries)
              /\ (Len(Entries') = n) <=> HasOpen(Entries)
              /\ ~HasOpen(Entries) =>
                     LET e == Entries'[n + 1]
                     IN  /\ e.MinX <= a[1] /\ a[1] <= e.MaxX
                         /\ e.MinY <= a[2] /\ a[2] <= e.MaxY
                         /\ Len(a) = 2 =>
                                /\ e.MinX = a[1] /\ e.MaxX = a[1]
                                /\ e.MinY = a[2] /\ e.MaxY = a[2]
              /\ (HasOpen(Entries) /\ last'.op = "MoveTo") =>
                     LET e == Entries[n]
                         f == Entries'[n]
                     IN  /\ f.Path = Append(e.Path, [Op |-> moveto, Args |-> a])
                         /\ f.MinX = Lesser(e.MinX, a[1]) /\ f.MaxX = Greater(e.MaxX, a[1])
                         /\ f.MinY = Lesser(e.MinY, a[2]) /\ f.MaxY = Greater(e.MaxY, a[2])
                         /\ ~f.Closed]_vars

\* C11 witness: a move_to was appended to an open entry and widened its box,
\* after an earlier entry was closed
C11_Witness ==
    /\ Buffered
    /\ last.op = "MoveTo"
    /\ Len(Entries) = 2
    /\ Entries[1].Closed
    /\ Len(Entries[2].Path) = 2
    /\ Entries[2].Path[1].Op = moveto /\ Entries[2].Path[2].Op = moveto
    /\ Entries[2].MinX < Entries[2].MaxX

\* C12: at most one entry is open, and it is the last one: every entry before
\* the last is closed.
C12_OnlyLastEntryOpen ==
    /\ \A i \in DOMAIN Entries : i < Len(Entries) => Entries[i].Closed
    /\ Cardinality({i \in DOMAIN Entries : ~Entries[i].Closed}) <= 1

\* C12 witness: three entries, the last one open
C12_Witness ==
    /\ Len(Entries) = 3
    /\ Entries[1].Closed /\ Entries[2].Closed /\ ~Entries[3].Closed

\* a segment as the recorder's methods build it
WellFormed(p) ==
    /\ p.Op \in {moveto, lineto, cubeto}
    /\ p.Op = cubeto => Len(p.Args) = 6
    /\ p.Op # cubeto => Len(p.Args) = 2

\* C17: on a recorder driven through move_to, line_to, cube_to and close_path,
\* every segment has an operator in {MoveTo, LineTo, CubeTo} with 2 arguments
\* (6 for CubeTo), every entry has a segment, and Render never panics.
C17_EntriesWellFormed ==
    /\ \A i \in DOMAIN Entries :
           /\ Len(Entries[i].Path) >= 1
           /\ \A k \in DOMAIN Entries[i].Path : WellFormed(Entries[i].Path[k])
    /\ last.op = "Render" => ~panicked

\* C17 witness: a replay of a closed entry holding a MoveTo, a CubeTo and a LineTo
C17_Witness ==
    /\ last.op = "Render"
    /\ Len(im) >= 1
    /\ \E i \in DOMAIN Entries :
           /\ Entries[i].Closed
           /\ {Entries[i].Path[k].Op : k \in DOMAIN Entries[i].Path} = {moveto, lineto, cubeto}

\* C18: no step changes a closed entry: it keeps its position, segments, box and
\* closed flag.
C18_ClosedEntriesImmutable ==
    [][\A i \in DOMAIN Entries :
           Entries[i].Closed => (i <= Len(Entries') /\ Entries'[i] = Entries[i])]_vars

\* C18 witness: a closed entry followed by an entry that two commands built
\* and a close_path closed
C18_Witness ==
    /\ Buffered
    /\ last.op = "ClosePath"
    /\ Len(Entries) = 2
    /\ Entries[1].Closed /\ Entries[2].Closed
    /\ Len(Entries[2].Path) = 2

\* ======================================================= shape generators
\* most shapes recorded by the generators (buffered)
MaxShapes == 2

\* const partial = 0.552284749831, as PartialNum / PartialDen
PartialNum == 552285
PartialDen == 1000000

\* a / b (b > 0) rounded to the nearest integer: a product or quotient of
\* coordinates is kept on the model's grid of 1 / Scale
RoundDiv(a, b) == (2 * a + b) \div (2 * b)

\* partial * v
Part(v) == RoundDiv(PartialNum * v, PartialDen)

\* 0.5 * width
Half(width) == RoundDiv(width, 2)

\* math.Sqrt(q), exact when q is a square (the lines drawn here are parallel
\* to an axis)
RECURSIVE SqrtFrom(_, _)
SqrtFrom(q, r) == IF (r + 1) * (r + 1) > q THEN r ELSE SqrtFrom(q, r + 1)

\* the scaling of LineTo without its factor .5: d := width / math.Sqrt(...)
AlongFullWidth(dv, dX, dY, width) == RoundDiv(dv * width, SqrtFrom(dX * dX + dY * dY, 0))

\* dX * d, for d := .5 * width / math.Sqrt(dX*dX + dY*dY)
Along(dv, dX, dY, width) == RoundDiv(dv * width, 2 * SqrtFrom(dX * dX + dY * dY, 0))

\* one call made on the Scriber
Cmd(name, args) == [op |-> name, args |-> args]

\* PointAt without its final r.ClosePath()
PointAtCmdsNoClose(x, y, width) ==
    <<Cmd("MoveTo", <<x + Half(width), y>>),
      Cmd("CubeTo", <<x + Half(width), y + Part(Half(width)), x + Part(Half(width)), y + Half(width), x, y + Half(width)>>),
      Cmd("CubeTo", <<x - Part(Half(width)), y + Half(width), x - Half(width), y + Part(Half(width)), x - Half(width), y>>),
      Cmd("CubeTo", <<x - Half(width), y - Part(Half(width)), x - Part(Half(width)), y - Half(width), x, y - Half(width)>>),
      Cmd("CubeTo", <<x + Part(Half(width)), y - Half(width), x + Half(width), y - Part(Half(width)), x + Half(width), y>>)>>

\* the calls PointAt(r, x, y, width) makes on r, in order
PointAtCmds(x, y, width) ==
    LET d == Half(width)
        p == Part(Half(width))
    IN  <<Cmd("MoveTo", <<x + d, y>>),
          Cmd("CubeTo", <<x + d, y + p, x + p, y + d, x, y + d>>),
          Cmd("CubeTo", <<x - p, y + d, x - d, y + p, x - d, y>>),
          Cmd("CubeTo", <<x - d, y - p, x - p, y - d, x, y - d>>),
          Cmd("CubeTo", <<x + p, y - d, x + d, y - p, x + d, y>>),
          Cmd("ClosePath", <<>>)>>

\* the calls LineTo(r, capped, oX, oY, nX, nY, width) makes once dX, dY are
\* scaled to half the width
LineCmds(capped, oX, oY, nX, nY, dX, dY) ==
    <<Cmd("MoveTo", <<oX - dY, oY + dX>>)>>
    \o (IF capped
        THEN <<Cmd("CubeTo", <<oX - dY - Part(dX), oY + dX - Part(dY),
                               oX - dX - Part(dY), oY - dY + Part(dX), oX - dX, oY - dY>>),
               Cmd("CubeTo", <<oX - dX + Part(dY), oY - dY - Part(dX),
                               oX + dY - Part(dX), oY - dX - Part(dY), oX + dY, oY - dX>>)>>
        ELSE <<Cmd("LineTo", <<oX + dY, oY - dX>>)>>)
    \o <<Cmd("LineTo", <<nX + dY, nY - dX>>)>>
    \o (IF capped
        THEN <<Cmd("CubeTo", <<nX + dY + Part(dX), nY - dX + Part(dY),
                               nX + dX + Part(dY), nY + dY - Part(dX), nX + dX, nY + dY>>),
               Cmd("CubeTo", <<nX + dX - Part(dY), nY + dY + Part(dX),
                               nX - dY + Part(dX), nY + dX + Part(dY), nX - dY, nY + dX>>)>>
        ELSE <<Cmd("LineTo", <<nX - dY, nY + dX>>)>>)
    \o <<Cmd("ClosePath", <<>>)>>

\* the calls LineTo(r, capped, oX, oY, nX, nY, width) makes on r, in order
GenLineToCmds(capped, oX, oY, nX, nY, width) ==
    IF oX = nX /\ oY = nY THEN <<>>
    ELSE LineCmds(capped, oX, oY, nX, nY,
                  Along(nX - oX, nX - oX, nY - oY, width),
                  Along(nY - oY, nX - oX, nY - oY, width))

\* SquareAt without its test of the width
SquareAtCmdsNoGuard(x, y, width) ==
    <<Cmd("MoveTo", <<x - Half(width), y - Half(width)>>),
      Cmd("LineTo", <<x + Half(width), y - Half(width)>>),
      Cmd("LineTo", <<x + Half(width), y + Half(width)>>),
      Cmd("LineTo", <<x - Half(width), y + Half(width)>>),
      Cmd("ClosePath", <<>>)>>

\* the calls SquareAt(r, x, y, width) makes on r, in order
SquareAtCmds(x, y, width) ==
    IF width <= 0 THEN <<>>
    ELSE LET d == Half(width)
         IN  <<Cmd("MoveTo", <<x - d, y - d>>),
               Cmd("LineTo", <<x + d, y - d>>),
               Cmd("LineTo", <<x + d, y + d>>),
               Cmd("LineTo", <<x - d, y + d>>),
               Cmd("ClosePath", <<>>)>>

\* one Scriber call on the recorder r: MoveTo, LineTo, CubeTo or ClosePath
Scribe(r, st, c) ==
    IF st.panicked THEN st
    ELSE IF c.op # "ClosePath"
    THEN [st EXCEPT !.Entries = extend(r, @, OpCode(c.op), c.args),
                    !.fwd = Forward(r, @, c.op, c.args)]
    ELSE IF r # Nil THEN [st EXCEPT !.fwd = Forward(r, @, "ClosePath", <<>>)]
    ELSE IF Len(st.Entries) = 0 THEN [st EXCEPT !.panicked = TRUE]
    ELSE [st EXCEPT !.Entries = CloseLast(@)]

\* the calls cmds made on r one after the other, from call k on
RECURSIVE Play(_, _, _, _)
Play(r, st, cmds, k) ==
    IF k > Len(cmds) THEN st ELSE Play(r, Scribe(r, st, cmds[k]), cmds, k + 1)

\* a generator call is taken while the recording has room for its shape
GenRoom ==
    /\ ~panicked
    /\ IF R = Nil THEN Len(Entries) < MaxShapes ELSE Len(fwd) < MaxCmds

\* the recorder after the Scriber calls cmds of one generator call
Generated(cmds) ==
    Play(R, [Entries |-> Entries, fwd |-> fwd, panicked |-> FALSE], cmds, 1)

PointAt(x, y, width) ==
    /\ GenRoom
    /\ Entries' = Generated(PointAtCmds(x, y, width)).Entries
    /\ fwd' = Generated(PointAtCmds(x, y, width)).fwd
    /\ panicked' = Generated(PointAtCmds(x, y, width)).panicked
    /\ last' = [op |-> "PointAt", args |-> <<x, y, width>>]
    /\ vrs' = <<>> /\ im' = <<>>
    /\ UNCHANGED R

\* the generator LineTo(r, capped, oX, oY, nX, nY, width); c is 1 for capped
GenLineTo(c, oX, oY, nX, nY, width) ==
    /\ GenRoom
    /\ Entries' = Generated(GenLineToCmds(c = 1, oX, oY, nX, nY, width)).Entries
    /\ fwd' = Generated(GenLineToCmds(c = 1, oX, oY, nX, nY, width)).fwd
    /\ panicked' = Generated(GenLineToCmds(c = 1, oX, oY, nX, nY, width)).panicked
    /\ last' = [op |-> "GenLineTo", args |-> <<c, oX, oY, nX, nY, width>>]
    /\ vrs' = <<>> /\ im' = <<>>
    /\ UNCHANGED R

SquareAt(x, y, width) ==
    /\ GenRoom
    /\ Entries' = Generated(SquareAtCmds(x, y, width)).Entries
    /\ fwd' = Generated(SquareAtCmds(x, y, width)).fwd
    /\ panicked' = Generated(SquareAtCmds(x, y, width)).panicked
    /\ last' = [op |-> "SquareAt", args |-> <<x, y, width>>]
    /\ vrs' = <<>> /\ im' = <<>>
    /\ UNCHANGED R

\* generator inputs (numerators over Scale)
PointIn == {<<0, 0, 2 * Scale>>}
LineIn == {<<0, 0, 10 * Scale, 0, 2 * Scale>>, <<Scale, Scale, Scale, Scale, 2 * Scale>>}
SquareIn == {<<0, 0, 10 * Scale>>, <<0, 0, 0>>, <<Scale, -Scale, -2 * Scale>>}

NextGen ==
    \/ \E a \in PointIn : PointAt(a[1], a[2], a[3])
    \/ \E c \in {0, 1}, a \in LineIn : GenLineTo(c, a[1], a[2], a[3], a[4], a[5])
    \/ \E a \in SquareIn : SquareAt(a[1], a[2], a[3])
    \/ \E p \in MovePts : MoveTo(p[1], p[2])
    \/ ClosePath
    \/ \E o \in Offs : Render(o[1], o[2])

\* the recorder driven by the shape generators
SpecGen == Init /\ [][NextGen]_vars

\* ------------------------------------------------------------------ claims
\* the last call was a generator call with degenerate input: SquareAt with
\* width <= 0, or the generator LineTo with origin = destination
DegenerateCall(l) ==
    \/ l.op = "SquareAt" /\ l.args[3] <= 0
    \/ l.op = "GenLineTo" /\ l.args[2] = l.args[4] /\ l.args[3] = l.args[5]

\* C13: a generator call with degenerate input (SquareAt with width <= 0,
\* generator LineTo from a point to itself) makes no call on its Scriber: the
\* recording (segments, entries, bounding boxes, closed flags) and the
\* forwarded calls are as they were, and nothing fails.
C13_DegenerateInputIsNoOp ==
    [][DegenerateCall(last') =>
        /\ Entries' = Entries
        /\ fwd' = fwd
        /\ panicked' = panicked]_vars

\* a degenerate SquareAt has run on a buffered recorder whose last entry is
\* still open
C13_Witness ==
    /\ Buffered
    /\ last.op = "SquareAt"
    /\ last.args[3] <= 0
    /\ HasOpen(Entries)

\* the last call was a generator call that draws: PointAt, SquareAt with
\* width > 0, the generator LineTo between two distinct points
DrawingCall(l) ==
    /\ l.op \in {"PointAt", "GenLineTo", "SquareAt"}
    /\ ~DegenerateCall(l)

\* segments of the shape a drawing call records
ShapeSegs(l) ==
    IF l.op = "PointAt" THEN 5
    ELSE IF l.op = "SquareAt" THEN 4
    ELSE IF l.args[1] = 1 THEN 6 ELSE 4

\* number of the calls in f named name
RECURSIVE CountOp(_, _)
CountOp(f, name) ==
    IF f = <<>> THEN 0
    ELSE (IF f[Len(f)].op = name THEN 1 ELSE 0) + CountOp(SubSeq(f, 1, Len(f) - 1), name)

\* C19: a drawing generator call makes exactly one MoveTo, first, and exactly
\* one ClosePath, last. On a buffered recorder with no open entry it therefore
\* appends exactly one entry, leaves the earlier entries as they were, and the
\* new entry is closed, starts with its only MoveTo segment and holds the
\* call's segments: 5 for PointAt, 4 for SquareAt, 4 for an uncapped and 6 for
\* a capped LineTo. (k such calls so leave k closed entries.)
C19_OneClosedEntryPerShape ==
    [][DrawingCall(last') =>
        /\ (Buffered /\ ~HasOpen(Entries)) =>
            /\ ~panicked'
            /\ Len(Entries') = Len(Entries) + 1
            /\ SubSeq(Entries', 1, Len(Entries)) = Entries
            /\ Entries'[Len(Entries')].Closed
            /\ Len(Entries'[Len(Entries')].Path) = ShapeSegs(last')
            /\ \A i \in 1..ShapeSegs(last') :
                  (Entries'[Len(Entries')].Path[i].Op = moveto) <=> (i = 1)
        /\ ~Buffered =>
            /\ Len(fwd') = Len(fwd) + ShapeSegs(last') + 1
            /\ SubSeq(fwd', 1, Len(fwd)) = fwd
            /\ fwd'[Len(fwd) + 1].op = "MoveTo"
            /\ fwd'[Len(fwd')].op = "ClosePath"
            /\ CountOp(fwd', "MoveTo") = CountOp(fwd, "MoveTo") + 1
            /\ CountOp(fwd', "ClosePath") = CountOp(fwd, "ClosePath") + 1]_vars

\* two drawing calls, a shape of 4 segments then PointAt, have left two closed
\* entries
C19_Witness ==
    /\ Buffered
    /\ last.op = "PointAt"
    /\ Len(Entries) = 2
    /\ Entries[1].Closed /\ Len(Entries[1].Path) = 4
    /\ Entries[2].Closed /\ Len(Entries[2].Path) = 5

\* the recording of the scenario: on an empty buffered recorder, SquareAt of
\* width 10 at (0,0), then a capped LineTo of width 2 from (0,0) to (10,0)
ScenarioEntries ==
    Play(Nil,
         Play(Nil, [Entries |-> <<>>, fwd |-> <<>>, panicked |-> FALSE],
              SquareAtCmds(0, 0, 10 * Scale), 1),
         GenLineToCmds(TRUE, 0, 0, 10 * Scale, 0, 2 * Scale), 1).Entries

\* the scenario has been recorded and replayed at offset (0,0)
ScenarioReplayed ==
    /\ Buffered
    /\ Entries = ScenarioEntries
    /\ last = [op |-> "Render", args |-> <<0, 0>>]

\* the union of the entries' extents spans x in [x0, x1], y in [y0, y1]
Footprint(es, x0, y0, x1, y1) ==
    /\ MinOf({es[i].MinX : i \in DOMAIN es}) = x0 * Scale
    /\ MinOf({es[i].MinY : i \in DOMAIN es}) = y0 * Scale
    /\ MaxOf({es[i].MaxX : i \in DOMAIN es}) = x1 * Scale
    /\ MaxOf({es[i].MaxY : i \in DOMAIN es}) = y1 * Scale

\* what the scenario records, and where its replay composites: each entry
\* into its own replay rectangle, its extent and a margin of one pixel
ScenarioShape ==
    /\ Len(Entries) = 2
    /\ Entries[1].Closed /\ Entries[2].Closed
    /\ ~panicked
    /\ Len(im) = 2
    /\ im[1].src = 1 /\ im[1].rect = [x0 |-> -6, y0 |-> -6, x1 |-> 6, y1 |-> 6]
    /\ im[2].src = 2 /\ im[2].rect = [x0 |-> -2, y0 |-> -2, x1 |-> 12, y1 |-> 2]

\* C15 as stated: the scenario records two closed entries and its replay at
\* (0,0) has the footprint x in [-5, 12], y in [-5, 5].
C15_FootprintAsStated ==
    ScenarioReplayed => (ScenarioShape /\ Footprint(Entries, -5, -5, 12, 5))

\* C15 amended: the scenario (SquareAt of width 10 at (0,0), then a capped
\* LineTo of width 2 from (0,0) to (10,0), replayed at (0,0)) records two
\* closed entries whose extents span exactly x in [-5, 11], y in [-5, 5] (the
\* end cap has radius 1, half the width), and each entry is composited into
\* its own replay rectangle and nowhere else.
C15_ScenarioFootprint ==
    ScenarioReplayed => (ScenarioShape /\ Footprint(Entries, -5, -5, 11, 5))

\* the scenario has been recorded and replayed, and both entries were drawn
C15_Witness ==
    /\ ScenarioReplayed
    /\ Len(im) = 2
    /\ Len(Entries[1].Path) = 4
    /\ Len(Entries[2].Path) = 6

\* =================================================== hand-built recordings
\* Entries is an exported field of Rasterizer, and Entry, Segment and Operator
\* are exported types: a caller can hand Render entries that no recorder
\* method built. Render is checked on such recordings.

\* most entries of a hand-built recording
MaxEntries == 2

\* segments no recorder method builds: the bogus operator, and argument counts
\* that do not fit the operator
BadSegs ==
    {[Op |-> bogus, Args |-> <<4, 2>>],
     [Op |-> moveto, Args |-> <<4, 2, 0, 0, 4, 2>>],
     [Op |-> cubeto, Args |-> <<4, 2>>],
     [Op |-> lineto, Args |-> <<>>]}

\* paths of hand-built entries: one well formed, the others with a bad
\* segment after a MoveTo
HandPaths ==
    {<<[Op |-> moveto, Args |-> <<0, 0>>], [Op |-> lineto, Args |-> <<4, 2>>]>>}
    \cup {<<[Op |-> moveto, Args |-> <<0, 0>>], b>> : b \in BadSegs}

\* hand-built entries, open and closed, with the bounding box of their points
HandEntries ==
    {[Closed |-> c, Path |-> p, MinX |-> 0, MinY |-> 0, MaxX |-> 4, MaxY |-> 2] :
        c \in BOOLEAN, p \in HandPaths}

\* a buffered recorder whose Entries were assigned by the caller
InitHand ==
    /\ R = Nil
    /\ Entries \in UNION {[1..n -> HandEntries] : n \in 1..MaxEntries}
    /\ fwd = <<>>
    /\ vrs = <<>>
    /\ im = <<>>
    /\ last = [op |-> "New", args |-> <<>>]
    /\ panicked = FALSE

NextHand == \E o \in Offs : Render(o[1], o[2])

\* Render of hand-built recordings
SpecHand == InitHand /\ [][NextHand]_vars

\* the closed entries of es holding a segment that is not well formed
Malformed(es) ==
    {i \in DOMAIN es : es[i].Closed /\ \E p \in Range(es[i].Path) : ~WellFormed(p)}

\* C14: when Render meets a closed entry with a malformed segment (bogus
\* operator, argument count not 2 for MoveTo or LineTo, not 6 for CubeTo), it
\* panics, and neither that entry nor any entry after it is composited.
C14_MalformedEntryAbortsReplay ==
    (last.op = "Render" /\ Malformed(Entries) # {}) =>
        /\ panicked
        /\ \A k \in DOMAIN im : im[k].src < MinOf(Malformed(Entries))

\* Render has met a malformed closed entry first, and the well-formed closed
\* entry after it was not composited
C14_Witness ==
    /\ last.op = "Render"
    /\ Len(Entries) = 2
    /\ Malformed(Entries) = {1}
    /\ Entries[2].Closed
    /\ im = <<>>
    /\ panicked

====
